---------------------------- MODULE Spec2Model ----------------------------
(***************************************************************************)
(* Model of the spigot log generators: the Fortinet firewall generator     *)
(* (package firewall), the Citrix CEF generator (package cef) and the      *)
(* random value library (package random).                                  *)
(*                                                                         *)
(* Text is modelled as TLA+ strings, so a rendered line is the string the  *)
(* template produces.  Instants are counted in clock ticks, TicksPerSec    *)
(* ticks to the second (the code's clock counts nanoseconds).  The         *)
(* process-wide math/rand source is a small congruential generator: a      *)
(* seed fixes the sequence of draws, as it does for math/rand.             *)
(***************************************************************************)
EXTENDS Integers, Sequences, FiniteSets, TLC

(***************************************************************************)
(* Bounds of the model.                                                    *)
(***************************************************************************)
\* clock ticks per second (the code's clock has 10^9)
TicksPerSec == 2
\* the clock advances at most this many ticks past its first reading
MaxClock == 7
\* number of states of the modelled random source
RandMod == 8
\* the scheduler takes the processor from a caller inside Next at most this often
MaxSwitches == 1

(***************************************************************************)
(* Strings and numbers.                                                    *)
(***************************************************************************)
Digits == <<"0", "1", "2", "3", "4", "5", "6", "7", "8", "9">>

HexDigits == <<"0", "1", "2", "3", "4", "5", "6", "7", "8", "9", "a", "b", "c", "d", "e", "f">>

\* strconv.Itoa / the template's rendering of a non-negative int
RECURSIVE Itoa(_)
Itoa(n) == IF n < 10 THEN Digits[n + 1] ELSE Itoa(n \div 10) \o Digits[(n % 10) + 1]

\* a two-digit, zero-padded field of a time layout ("02", "15", "04", "05")
Pad2(n) == IF n < 10 THEN "0" \o Itoa(n) ELSE Itoa(n)

\* a four-digit year ("2006")
Pad4(n) ==
    IF n < 10 THEN "000" \o Itoa(n)
    ELSE IF n < 100 THEN "00" \o Itoa(n)
    ELSE IF n < 1000 THEN "0" \o Itoa(n)
    ELSE Itoa(n)

\* hex.EncodeToString of one byte
HexByte(b) == HexDigits[(b \div 16) + 1] \o HexDigits[(b % 16) + 1]

RECURSIVE EncodeToString(_)
EncodeToString(bs) ==
    IF bs = <<>> THEN "" ELSE HexByte(Head(bs)) \o EncodeToString(Tail(bs))

\* whether the text holds a newline character
HasNewline(s) == \E i \in 1..Len(s) : SubSeq(s, i, i) = "\n"

\* net.IP.String of an IPv4 address: dotted quad
IPString(ip) ==
    Itoa(ip[1]) \o "." \o Itoa(ip[2]) \o "." \o Itoa(ip[3]) \o "." \o Itoa(ip[4])

(***************************************************************************)
(* Time: an instant is a number of ticks since the Unix epoch.             *)
(***************************************************************************)
SecondsPerDay == 24 * 60 * 60

\* time.Time.Unix
Unix(t) == t \div TicksPerSec

\* the civil date of a day number counted from 1970-01-01
CivilDate(days) ==
    LET z == days + 719468
        era == z \div 146097
        doe == z - era * 146097
        yoe == (doe - doe \div 1460 + doe \div 36524 - doe \div 146096) \div 365
        doy == doe - (365 * yoe + yoe \div 4 - yoe \div 100)
        mp == (5 * doy + 2) \div 153
        d == doy - (153 * mp + 2) \div 5 + 1
        m == IF mp < 10 THEN mp + 3 ELSE mp - 9
        y == yoe + era * 400 + (IF m <= 2 THEN 1 ELSE 0)
    IN  [year |-> y, month |-> m, day |-> d]

\* the wall clock fields of instant t in the zone off seconds east of UTC
Wall(t, off) ==
    LET s == Unix(t) + off
        sod == s % SecondsPerDay
        c == CivilDate(s \div SecondsPerDay)
    IN  [year |-> c.year, month |-> c.month, day |-> c.day,
         hour |-> sod \div 3600, minute |-> (sod % 3600) \div 60, second |-> sod % 60]

MonthNames == <<"Jan", "Feb", "Mar", "Apr", "May", "Jun", "Jul", "Aug", "Sep", "Oct", "Nov", "Dec">>

\* the layout "15:04:05"
FormatClock(w) == Pad2(w.hour) \o ":" \o Pad2(w.minute) \o ":" \o Pad2(w.second)

\* time.Time.Format for the layouts the generators use
Format(t, off, layout) ==
    LET w == Wall(t, off)
    IN  CASE layout = "15:04:05" -> FormatClock(w)
          [] layout = "2006-01-02" ->
                Pad4(w.year) \o "-" \o Pad2(w.month) \o "-" \o Pad2(w.day)
          [] layout = "Jan 02 15:04:05" ->
                MonthNames[w.month] \o " " \o Pad2(w.day) \o " " \o FormatClock(w)
          [] layout = "Jan 2 15:04:05" ->
                MonthNames[w.month] \o " " \o Itoa(w.day) \o " " \o FormatClock(w)

(***************************************************************************)
(* The process-wide random source (math/rand).  Its state is a number      *)
(* below RandMod; a seed sets the state, every draw advances it, and the   *)
(* value drawn is a function of the state, spread over the asked range.    *)
(***************************************************************************)
\* rand.Seed: the state the seed installs
Seed(seed) == seed % RandMod

\* the source's state after one draw
Step(r) == (5 * r + 1) % RandMod

\* rand.Intn(n), rand.Int63n(n): the value in [0, n) drawn from state r
\* (the source is in state Step(r) afterwards)
Intn(r, n) == (Step(r) * (n - 1)) \div (RandMod - 1)

\* the source's state after k draws
RECURSIVE StepN(_, _)
StepN(r, k) == IF k = 0 THEN r ELSE StepN(Step(r), k - 1)

\* the k octets of the value or values drawn from state r: rand.Uint32() is one
\* draw of four octets, rand.Read of 16 octets is three draws of seven octets;
\* a state of the model's source being small, the octets are spread over the
\* states that follow r
RECURSIVE Octets(_, _)
Octets(r, k) == IF k = 0 THEN <<>> ELSE <<Intn(r, 256)>> \o Octets(Step(r), k - 1)

\* random.IPv4: the address made of the four octets of one rand.Uint32()
IPv4(r) == Octets(r, 4)

\* a Port that can draw 65536
PortPastEnd(r) == Intn(r, 65537)

\* random.Port: rand.Intn(65536) drawn from state r
Port(r) == Intn(r, 65536)

\* the lookback window of Randomtime, in minutes
WindowMinutes == 20

\* duration := 20 * time.Minute, in ticks
Window == WindowMinutes * 60 * TicksPerSec

\* random.Randomtime: seedAt and now are the two clock readings of the call,
\* off the local zone; the source is reseeded with the first reading and one
\* value is drawn
Randomized(seedAt, now, off, seeded, offset) ==
    [formattedTime |-> Format((now - Window) + offset, off, "15:04:05"),
     rng |-> Step(seeded),
     call |-> [seed |-> seedAt, now |-> now, lowerBound |-> now - Window,
               offset |-> offset, randomTimestamp |-> (now - Window) + offset]]

\* a Randomtime whose offset can be the whole window
RandomtimeInclusive(seedAt, now, off) ==
    Randomized(seedAt, now, off, Seed(seedAt),
               Intn(Seed(seedAt), now - (now - Window) + 1))

\* a Randomtime that seeds the source with the clock's seconds
RandomtimeUnixSeconds(seedAt, now, off) ==
    Randomized(seedAt \div TicksPerSec, now, off, Seed(seedAt \div TicksPerSec),
               Intn(Seed(seedAt \div TicksPerSec), now - (now - Window)))

\* random.Randomtime(), with the clock reading seedAt at rand.Seed and now at
\* time.Now(), in the zone off: the string, the source's state after, and the
\* call's local values
Randomtime(seedAt, now, off) ==
    Randomized(seedAt, now, off, Seed(seedAt), Intn(Seed(seedAt), now - (now - Window)))

(***************************************************************************)
(* The template engine (text/template) as the generators use it: a         *)
(* template string is parsed into text and action nodes, and executed      *)
(* against a record whose fields have the types of the Go struct.          *)
(***************************************************************************)
\* positions in s, from position i on, where the two characters d stand
Occurrences(s, d, i) == {j \in i..(Len(s) - 1) : SubSeq(s, j, j + 1) = d}

Min(S) == CHOOSE x \in S : \A y \in S : x <= y

\* the parts of s between occurrences of the one-character separator ch
RECURSIVE SplitOn(_, _)
SplitOn(s, ch) ==
    LET at == {j \in 1..Len(s) : SubSeq(s, j, j) = ch}
    IN  IF at = {} THEN <<s>>
        ELSE <<SubSeq(s, 1, Min(at) - 1)>> \o SplitOn(SubSeq(s, Min(at) + 1, Len(s)), ch)

\* the text node for src[i..j], if there is text
TextNode(src, i, j) ==
    IF j >= i THEN <<[kind |-> "text", s |-> SubSeq(src, i, j)]>> ELSE <<>>

\* the lexer's step at an action opened at o and closed at c (0: never closed)
RECURSIVE Lex(_, _, _)
LexAction(src, i, o, c, acc) ==
    IF c = 0 THEN [err |-> TRUE, nodes |-> acc \o TextNode(src, i, o - 1)]
    ELSE Lex(src, c + 2,
             acc \o TextNode(src, i, o - 1)
                 \o <<[kind |-> "action", s |-> SubSeq(src, o + 2, c - 1)]>>)

\* the first position in ps, or 0 if there is none
First(ps) == IF ps = {} THEN 0 ELSE Min(ps)

\* the lexer's step at position i, where the next "{{" is at o (0: there is none)
LexText(src, i, o, acc) ==
    IF o = 0 THEN [err |-> FALSE, nodes |-> acc \o TextNode(src, i, Len(src))]
    ELSE LexAction(src, i, o, First(Occurrences(src, "}}", o + 2)), acc)

\* the lexer: text up to the next "{{", then the action up to its "}}"
Lex(src, i, acc) == LexText(src, i, First(Occurrences(src, "{{", i)), acc)

\* the words of an action
Words(a) == SelectSeq(SplitOn(a, " "), LAMBDA w : w # "")

\* the open {{with}} blocks left after the nodes from i on, or -1 for an {{end}} with no block
RECURSIVE Nesting(_, _, _)
Nesting(nodes, i, depth) ==
    IF i > Len(nodes) THEN depth
    ELSE IF nodes[i].kind = "text" THEN Nesting(nodes, i + 1, depth)
    ELSE LET w == Words(nodes[i].s)
         IN  IF w = <<>> THEN -1
             ELSE IF w[1] = "with" THEN Nesting(nodes, i + 1, depth + 1)
             ELSE IF w[1] = "end" THEN
                  IF depth = 0 THEN -1 ELSE Nesting(nodes, i + 1, depth - 1)
             ELSE Nesting(nodes, i + 1, depth)

\* template.New(name).Funcs(...).Parse(v): the compiled template, or an error
Parse(name, v) ==
    LET lexed == Lex(v, 1, <<>>)
    IN  IF lexed.err \/ Nesting(lexed.nodes, 1, 0) # 0
        THEN [err |-> TRUE, name |-> name, nodes |-> <<>>]
        ELSE [err |-> FALSE, name |-> name, nodes |-> lexed.nodes]

\* a value that failed to evaluate
Bad == [ty |-> "error"]

\* one step of a field chain: field or method x of the value val
Member(val, x) ==
    IF val.ty = "struct" THEN
        IF x \in DOMAIN val.schema
        THEN [ty |-> val.schema[x], v |-> val.v[x], off |-> val.off]
        ELSE Bad
    ELSE IF val.ty = "time" THEN
        CASE x = "UTC" -> [ty |-> "time", v |-> val.v, off |-> 0]
          [] x = "Unix" -> [ty |-> "int", v |-> Unix(val.v), off |-> val.off]
          [] x = "Year" -> [ty |-> "int", v |-> Wall(val.v, val.off).year, off |-> val.off]
          [] x = "Format" -> [ty |-> "method", v |-> val.v, off |-> val.off]
          [] OTHER -> Bad
    ELSE Bad

\* the chain .A.B.C evaluated from dot; "." is dot itself
RECURSIVE Chain(_, _)
Chain(val, names) ==
    IF names = <<>> \/ val.ty = "error" THEN val
    ELSE IF Head(names) = "" THEN Chain(val, Tail(names))
    ELSE Chain(Member(val, Head(names)), Tail(names))

\* an operand: a quoted string constant or a field chain
Operand(dot, w) ==
    IF SubSeq(w, 1, 1) = "\"" THEN [ty |-> "string", v |-> SubSeq(w, 2, Len(w) - 1)]
    ELSE IF SubSeq(w, 1, 1) = "." THEN Chain(dot, SplitOn(w, "."))
    ELSE Bad

\* the call of the method head with the one argument arg
CallMethod(head, arg) ==
    IF arg.ty # "string" THEN Bad
    ELSE [ty |-> "string", v |-> Format(head.v, head.off, arg.v)]

\* the pipeline w whose first operand evaluated to head
EvalHead(dot, w, head) ==
    IF head.ty = "error" THEN Bad
    ELSE IF head.ty = "method" THEN
        IF Len(w) # 2 THEN Bad ELSE CallMethod(head, Operand(dot, w[2]))
    ELSE IF Len(w) # 1 THEN Bad
    ELSE head

\* a pipeline of the shapes the generators use: a chain, or a method call with one argument
Eval(dot, w) == EvalHead(dot, w, Operand(dot, w[1]))

\* the text an evaluated value prints as
Show(val) ==
    CASE val.ty = "string" -> val.v
      [] val.ty = "int" -> Itoa(val.v)
      [] val.ty = "ip" -> IF val.v = <<>> THEN "<nil>" ELSE IPString(val.v)

\* a {{with}} that takes only a nil value for empty
EmptyNil(val) == val.ty = "ip" /\ val.v = <<>>

\* whether {{with}} takes the value for empty
Empty(val) ==
    CASE val.ty = "string" -> val.v = ""
      [] val.ty = "int" -> val.v = 0
      [] val.ty = "ip" -> val.v = <<>>
      [] OTHER -> FALSE

\* {{pipeline}}: the value is printed, or execution fails
ExecPrint(st, val) ==
    IF val.ty = "error" THEN [st EXCEPT !.err = TRUE]
    ELSE [st EXCEPT !.out = st.out \o Show(val)]

\* {{with pipeline}}: dot becomes the value, or the block is skipped
ExecWith(st, val) ==
    IF val.ty = "error" THEN [st EXCEPT !.err = TRUE]
    ELSE IF Empty(val) THEN [st EXCEPT !.skip = 1]
    ELSE [st EXCEPT !.dots = <<val>> \o st.dots]

\* the execution of the action with words w
ExecAction(st, w) ==
    IF w[1] = "end" THEN
        IF st.skip > 0 THEN [st EXCEPT !.skip = st.skip - 1]
        ELSE [st EXCEPT !.dots = Tail(st.dots)]
    ELSE IF w[1] = "with" THEN
        IF st.skip > 0 THEN [st EXCEPT !.skip = st.skip + 1]
        ELSE ExecWith(st, Eval(Head(st.dots), Tail(w)))
    ELSE IF st.skip > 0 THEN st
    ELSE ExecPrint(st, Eval(Head(st.dots), w))

\* the execution of one node; st holds the text written so far (out), the
\* stack of dot values (dots), the depth of {{with}} blocks being skipped (skip)
\* and whether execution failed (err)
ExecNode(node, st) ==
    IF node.kind = "text" THEN
        IF st.skip = 0 THEN [st EXCEPT !.out = st.out \o node.s] ELSE st
    ELSE ExecAction(st, Words(node.s))

\* the execution of nodes lo..hi in order, from st; it stops at the first failure
RECURSIVE Exec(_, _, _, _)
Exec(nodes, lo, hi, st) ==
    IF st.err \/ lo > hi THEN st
    ELSE Exec(nodes, lo + 1, hi, ExecNode(nodes[lo], st))

\* an Execute that ends the line it wrote
ExecutedLine(st) == [err |-> st.err, out |-> st.out \o "\n"]

\* what Execute reports of the final execution state
Executed(st) == [err |-> st.err, out |-> st.out]

\* (*Template).Execute(&buf, data): what is written to buf, and whether it failed
Execute(t, data, schema, off) ==
    Executed(Exec(t.nodes, 1, Len(t.nodes),
                  [err |-> FALSE, out |-> "", skip |-> 0,
                   dots |-> <<[ty |-> "struct", v |-> data, schema |-> schema,
                               off |-> off]>>]))

(***************************************************************************)
(* Package firewall: templates and lookup tables.                          *)
(***************************************************************************)
eventUserTemplate ==
    "date={{.Date.UTC.Format \"2006-01-02\"}} time={{.Timestamp}} devname=\"{{.DevName}}\" devid=\"{{.DevId}}\" logid=\"{{.LogId}}\" type=\"event\" subtype=\"user\" level=\"{{.Level}}\" vd=\"{{.Vd}}\" eventtime={{.Date.Unix}} tz=\"{{.Timezone}}\" logdesc=\"FSSO logon authentication status\" srcip={{.SrcIp}} user=\"{{.User}}\" server=\"{{.Server}}\" action=\"FSSO-logon\" msg=\"FSSO-logon event from FSSO_{{.Server}}: user {{.User}} logged on {{.SrcIp}}\""

eventSystemTemplate ==
    "date={{.Date.UTC.Format \"2006-01-02\"}} time={{.Timestamp}} devname=\"{{.DevName}}\" devid=\"{{.DevId}}\" logid=\"{{.LogId}}\" type=\"event\" subtype=\"system\" level=\"{{.Level}}\" vd=\"{{.Vd}}\" eventtime={{.Date.Unix}} tz=\"{{.Timezone}}\" logdesc=\"FortiSandbox AV database updated\" version=\"1.522479\" msg=\"FortiSandbox AV database updated\""

utmDnsTemplate ==
    "date={{.Date.UTC.Format \"2006-01-02\"}} time={{.Timestamp}} devname=\"{{.DevName}}\" devid=\"{{.DevId}}\" logid=\"{{.LogId}}\" type=\"utm\" subtype=\"dns\" eventtype=\"dns-query\" level=\"{{.Level}}\" vd=\"{{.Vd}}\" eventtime={{.Date.Unix}} tz=\"{{.Timezone}}\" policyid={{.PolicyId}} sessionid={{.SessionId}} srcip={{.SrcIp}} srcport={{.SrcPort}} srcintf=\"{{.Interface1}}\" srcintfrole=\"{{.InterfaceRole1}}\" dstip={{.DstIp}} dstport=53 dstintf=\"{{.Interface2}}\" dstintfrole=\"{{.InterfaceRole2}}\" proto={{.Protocol}} profile=\"{{.Server}}\" xid={{.XId}} qname=\"{{.QueryName}}\" qtype=\"{{.QueryType}}\" qtypeval=1 qclass=\"IN\""

trafficForwardTemplate ==
    "date={{.Date.UTC.Format \"2006-01-02\"}} time={{.Timestamp}} devname=\"{{.DevName}}\" devid=\"{{.DevId}}\" logid=\"{{.LogId}}\" type=\"traffic\" subtype=\"forward\" level=\"{{.Level}}\" vd=\"{{.Vd}}\" eventtime={{.Date.Unix}} srcip={{.SrcIp}} srcport={{.SrcPort}} srcintf=\"{{.Interface1}}\" srcintfrole=\"{{.InterfaceRole1}}\" dstip={{.DstIp}} dstport={{.DstPort}} dstintf=\"{{.Interface2}}\" dstintfrole=\"{{.InterfaceRole2}}\" sessionid={{.SessionId}} proto={{.Protocol}} action=\"{{.TrafficAction}}\" policyid={{.PolicyId}} policytype=\"policy\" service=\"SNMP\" dstcountry=\"Reserved\" srccountry=\"Reserved\" trandisp=\"noop\" duration={{.Duration}} sentbyte={{.SentBytes}} rcvdbyte={{.SentBytes}} sentpkt={{.SentPackets}} appcat=\"unscanned\" crscore=30 craction=131072 crlevel=\"high\""

\* firewall: msgTemplates as declared
fwTemplates ==
    << eventUserTemplate, eventSystemTemplate, utmDnsTemplate, trafficForwardTemplate >>

devices ==
    << "Lakewood", "Midvale", "Brookside", "Holloway", "Fairview", "Westport", "Elmswood",
      "Ridgefield", "Pinehurst", "Stonebridge", "Mapleton", "Riverside", "Graysville",
      "Windermere", "Briarcliff", "Oakridge", "Highland", "Copperfield", "Woodhaven",
      "Silverton", "Rosewood", "Cedarcrest", "Ashford", "Elmwood", "Woodbury", "Springfield",
      "Ravenswood", "Stonegate", "Brookhaven", "Southgate", "Seabrook", "Edgewood",
      "Greenfield", "Meadowbrook", "Bellevue", "Clarksville", "Oakwood", "Ridgemont",
      "Crystal_Lake", "Riverview", "Whispering_Pines", "Forest_Hill", "Sunnydale", "Mountview",
      "Woodlake", "Baywood", "Brentwood", "Lincolnwood", "Summitville", "Elm_Grove" >>

devid ==
    << "Lakew", "Midva", "Broos", "Hollo", "Fairv", "Westp", "Elmsw", "Ridge", "Pineh", "Stonb",
      "Maple", "Rivers", "Grayv", "Windm", "Briac", "Oakri", "Highl", "Copfi", "Woodh",
      "Silve", "Rosew", "Cedcr", "Ashfo", "Elmwo", "Woodb", "Sprin", "Raven", "Stoga", "Brooh",
      "South", "Seabr", "Edgew", "Green", "Meado", "Belle", "Clark", "Oakwo", "Ridgm", "Cryla",
      "Rivew", "Whisp", "Foreh", "Sunny", "Mount", "Woodl", "Baywo", "Brewd", "Lincw", "Summi",
      "Elmgv" >>

users ==
    << "Liam_Walters", "Emma_Douglas", "Noah_Hamilton", "Olivia_Stevens", "Elijah_Baker",
      "Ava_Reynolds", "James_Thompson", "Sophia_Parker", "Lucas_Bennett", "Isabella_Brooks",
      "Mason_Rogers", "Mia_Campbell", "Ethan_Phillips", "Amelia_Bell", "Alexander_Carter",
      "Charlotte_Adams", "Henry_Patterson", "Harper_Wright", "Sebastian_Cooper", "Evelyn_Gray",
      "Jack_Hughes", "Lily_Ross", "Owen_Morris", "Ella_Hayes", "Daniel_Peterson", "Aria_Myers",
      "Samuel_Long", "Chloe_Collins", "Matthew_Hughes", "Grace_Cook", "Wyatt_Warren",
      "Scarlett_Reed", "Caleb_Bryant", "Penelope_Rogers", "Isaac_Murphy", "Nora_Jenkins",
      "Jacob_Cunningham", "Hazel_Clark", "Levi_Morgan", "Riley_Perry", "Nathaniel_Foster",
      "Zoey_Ford", "Joshua_Harrison", "Lillian_Sullivan", "David_McCarthy", "Avery_Hart",
      "Andrew_Walker", "Stella_Price", "Thomas_Ward", "Hannah_Hall" >>

levels ==
    << "warning", "notice", "information", "error" >>

interfaces ==
    << "int0", "int1", "int2", "int3", "int4", "int5", "int6", "int7" >>

roles ==
    << "lan", "wan", "internal", "external", "inbound", "outbound" >>

protocols ==
    << 6, 17 >>

queries ==
    << "www.silverpinevalley.com", "www.brickstoneridge.net", "www.oakwoodgrove.org",
      "www.bluewaterhaven.co", "www.copperhollow.info", "www.windyriverplains.com",
      "www.crystalbayvillage.net", "www.ironwoodcove.org", "www.sunsetbluffresort.co",
      "www.whisperinghillspoint.info", "www.mapleridgeranch.com", "www.goldenpeakfarms.net",
      "www.riverviewmeadows.org", "www.stonecreekwoods.co", "www.briarwoodcrossing.info",
      "www.highlandgrovesprings.com", "www.greenfieldretreat.net", "www.silverlakehollow.org",
      "www.rosewoodvista.co", "www.ashforddunes.info", "www.willowbrookcourt.com",
      "www.oakridgefalls.net", "www.copperfieldgrove.org", "www.windermerebay.co",
      "www.meadowbrookhaven.info", "www.bellavistaacres.com", "www.ridgemontestates.net",
      "www.sunnydaleshores.org", "www.lakewoodreserves.co", "www.westportpines.info",
      "www.elmswoodmeadow.com", "www.ridgefieldplaza.net", "www.pinehurstcove.org",
      "www.stonebridgeflats.co", "www.mapletonlodge.info", "www.graysvillemanor.com",
      "www.windermerepoint.net", "www.briarcliffheights.org", "www.oakridgebay.co",
      "www.highlandcrossing.info", "www.copperfieldterrace.com", "www.woodhavenhills.net",
      "www.silvertonview.org", "www.rosewoodvalley.co", "www.cedarcrestgrove.info",
      "www.ashfordpeaks.com", "www.elmwoodlakes.net", "www.woodburyridge.org",
      "www.springfieldbluff.co" >>

queryTypes ==
    << "A", "AAAA" >>

servers ==
    << "Zeus_prod", "Hera_test", "Poseidon_dev", "Demeter_prod", "Athena_dev", "Apollo_test",
      "Artemis_prod", "Ares_dev", "Aphrodite_test", "Hephaestus_prod", "Hermes_dev",
      "Hestia_test", "Dionysus_prod", "Hades_dev", "Persephone_test", "Hecate_prod",
      "Gaia_dev", "Cronus_test", "Rhea_prod", "Eros_dev", "Helios_test", "Selene_prod",
      "Eos_dev", "Nike_test", "Nemesis_prod", "Iris_dev", "Hypnos_test", "Thanatos_prod",
      "Morpheus_dev", "Tyche_test", "Pan_prod", "Eris_dev", "Hebe_test", "Nyx_prod",
      "Khione_dev", "Themis_test", "Harmonia_prod", "Phoebe_dev", "Leto_test", "Tethys_prod",
      "Metis_dev", "Aether_test", "Hemera_prod", "Eurus_dev", "Notus_test", "Boreas_prod",
      "Zephyrus_dev", "Styx_test", "Phobos_prod", "Deimos_dev" >>

trafficActions ==
    << "deny", "accept" >>

(***************************************************************************)
(* Package cef: template and lookup tables.                                *)
(***************************************************************************)
tmpl ==
    "{{.Timestamp.Format .TimeLayout}} <{{.Facility}}.{{.Priority}}> {{.Addr}} CEF:{{.CEFVersion}}|{{.Vendor}}|{{.Product}}|{{.Version}}|{{.Module}}|{{.Violation}}|{{.Severity}}|src={{.SrcAddr}} {{with .Geo}}geolocation={{.}} {{end}}spt={{.SrcPort}} method={{.Method}} request={{.Request}} msg={{.Message}} cn1={{.EventID}} cn2={{.TxID}} cs1={{.Profile}} cs2={{.PPEID}} cs3={{.SessID}} cs4={{.SeverityLabel}} cs5={{.Year}} {{with .ViolationCategory}}cs6={{.}} {{end}}act={{.Action}}"

\* cef: msgTemplates as declared
cefTemplates ==
    << tmpl >>

timeLayouts ==
    << "Jan 02 15:04:05", "Jan 2 15:04:05" >>

facilities ==
    << "auth", "authpriv", "cron", "daemon", "kern", "lpr", "mail", "mark", "news", "syslog",
      "user", "uucp", "local0", "local1", "local2", "local3", "local4", "local5", "local6",
      "local7" >>

priorities ==
    << "debug", "info", "notice", "warning", "warn", "err", "error", "crit", "alert", "emerg",
      "panic" >>

vendors ==
    << "Citrix" >>

products ==
    << "NetScalar" >>

versions ==
    << "NS10.0", "NS11.0" >>

modules ==
    << "APPFW" >>

violations ==
    << "APPFW_FIELDCONSISTENCY", "APPFW_SAFECOMMERCE", "APPFW_SAFECOMMERCE_XFORM",
      "APPFW_SIGNATURE_MATCH", "APPFW_STARTURL" >>

locations ==
    << "", "Unknown", "NorthAmerica.Altimoria.Corvax.CityCenter.*.*",
      "NorthAmerica.Florensia.Novath.TremorValley.*.*",
      "NorthAmerica.Gallania.Rovento.Sunridge.*.*",
      "NorthAmerica.Baltoria.Velzora.PolarisHeights.*.*",
      "NorthAmerica.Novadia.Quivera.FlamingRidge.*.*",
      "NorthAmerica.Xandria.Velmos.Riverstone.*.*",
      "NorthAmerica.Kestoria.Yalvaz.CrimsonHill.*.*",
      "NorthAmerica.Vollara.Zendar.AuroraPeaks.*.*",
      "NorthAmerica.Quintara.Pallaxa.SilverLake.*.*",
      "NorthAmerica.Morovia.Korvath.SolarisPlains.*.*",
      "NorthAmerica.Serenia.Ryland.Stormview.*.*",
      "NorthAmerica.Zyrenthia.Vortak.Ironcliff.*.*",
      "NorthAmerica.Valoria.Draconis.WildroseGlen.*.*",
      "NorthAmerica.Tarvonia.Felwind.ShadowGrove.*.*",
      "NorthAmerica.Lorasia.Velthra.Sunspire.*.*",
      "NorthAmerica.Talvaxia.Balaria.CrimsonFalls.*.*",
      "NorthAmerica.Elandria.Kovoria.Glintwood.*.*",
      "NorthAmerica.Orlanta.Zandor.Mistvale.*.*",
      "NorthAmerica.Valteris.Xanoris.ThunderValley.*.*",
      "NorthAmerica.Morlonia.Phaedra.EchoHaven.*.*",
      "NorthAmerica.Theria.Vestoria.TremorHollow.*.*",
      "NorthAmerica.Zarvath.Mystara.Glintwood.*.*",
      "NorthAmerica.Kalandor.Volvax.Silverstrand.*.*",
      "NorthAmerica.Olivar.Ventara.CrimsonMesa.*.*",
      "NorthAmerica.Theronia.Pyrax.ThunderRidge.*.*",
      "NorthAmerica.Veloria.Zyros.Moonshadow.*.*",
      "NorthAmerica.Zovaris.Korvax.Stormcrest.*.*",
      "NorthAmerica.Valentia.Rivenor.Sunblade.*.*",
      "NorthAmerica.Zeltria.Orex.Shadowridge.*.*",
      "NorthAmerica.Voronia.Xelthra.Thunderpeak.*.*",
      "SouthAmerica.Viridia.Malothia.JadeHollow.*.*",
      "SouthAmerica.Malandria.Aurelia.PhoenixBay.*.*",
      "SouthAmerica.Valcoria.Lorvia.EmeraldIsle.*.*",
      "SouthAmerica.Aronya.Valeria.MysticFalls.*.*",
      "SouthAmerica.Celestia.Palvoria.EbonyVale.*.*",
      "SouthAmerica.Zorvia.Sarath.TalonCliffs.*.*",
      "SouthAmerica.Celentis.Volara.Dreamshade.*.*",
      "SouthAmerica.Valthera.Tarvora.CrimsonCove.*.*",
      "SouthAmerica.Xanthia.Theros.MysticGrove.*.*",
      "SouthAmerica.Selveria.Pyros.Riverwind.*.*",
      "SouthAmerica.Volthea.Arventis.ShadowGlen.*.*",
      "SouthAmerica.Eldoria.Lithara.Thunderstone.*.*",
      "SouthAmerica.Korvax.Talora.Sunspire.*.*", "SouthAmerica.Vyxoria.Zandros.Shadowvale.*.*",
      "SouthAmerica.Pyronia.Volcath.SilentHill.*.*",
      "SouthAmerica.Zylandria.Orvath.CrimsonBay.*.*",
      "SouthAmerica.Valtheris.Vorlon.Suncrest.*.*",
      "SouthAmerica.Xylandria.Antaris.EchoValley.*.*",
      "SouthAmerica.Novanta.Pallaxa.LunarGrove.*.*",
      "SouthAmerica.Quilara.Talvos.StormBluff.*.*",
      "SouthAmerica.Vandora.Valzor.SilverStream.*.*",
      "SouthAmerica.Xyvronia.Lithara.MysticCove.*.*",
      "SouthAmerica.Selvoria.Vorvath.ThunderGlen.*.*",
      "SouthAmerica.Valencia.Orvalon.Rivercrest.*.*",
      "SouthAmerica.Xylothia.Zentar.GlintRidge.*.*",
      "SouthAmerica.Voloria.Sylvara.TwilightPeak.*.*",
      "Europe.Maldera.Quinthra.Shadowpeak.*.*", "Europe.Talvoria.Aurex.LunarHollow.*.*",
      "Europe.Valtoria.Xelara.SunfallGlen.*.*", "Europe.Xylandria.Korinox.StormCrest.*.*",
      "Europe.Ceridia.Vandor.SilverGrove.*.*", "Europe.Kytheria.Zorthal.Ravenridge.*.*",
      "Europe.Zypheria.Malvora.Sunwood.*.*", "Europe.Volaxia.Talendria.Moonstone.*.*",
      "Europe.Karvoria.Vorlon.EchoMesa.*.*", "Europe.Thalandia.Zaltor.Sunridge.*.*",
      "Europe.Vantoria.Syldor.CrimsonHollow.*.*", "Europe.Xantheas.Oltar.Stormwind.*.*",
      "Europe.Quinthia.Aetheris.ThunderCliff.*.*", "Europe.Rovinthar.Zyros.CrimsonGlade.*.*",
      "Europe.Selveris.Vorath.MoonBluff.*.*", "Europe.Talvora.Zyloth.Glintwood.*.*",
      "Europe.Valtheris.Vorath.MysticHaven.*.*", "Europe.Zelvoris.Altira.Silverthorn.*.*",
      "Europe.Valthera.Kylos.Sunspire.*.*", "Europe.Xyphera.Voltara.ShadowMire.*.*",
      "Europe.Celathra.Tharvos.MysticCove.*.*", "Europe.Theronis.Orvax.CrimsonPeak.*.*",
      "Europe.Selvorn.Korvath.ThunderBay.*.*", "Europe.Zantheria.Voloria.SilverMesa.*.*",
      "Europe.Xyrelia.Talvora.RavenGlen.*.*", "Europe.Valoria.Zelthra.Moonrise.*.*",
      "Europe.Quinthara.Olthera.SilverLake.*.*", "Europe.Zoltara.Ryvon.ThunderHill.*.*",
      "Europe.Selvoris.Vorland.Suncrest.*.*", "Europe.Theronix.Xarvath.CrimsonRidge.*.*",
      "Europe.Korvaris.Valthros.StormBay.*.*", "Europe.Valdoria.Quinthos.EchoGrove.*.*",
      "Africa.Voltheon.Zoltris.Suncrest.*.*", "Africa.Thalvaria.Ravinthar.LunarHollow.*.*",
      "Africa.Valoria.Xalvath.ThunderPlains.*.*", "Africa.Zorvath.Selenor.Silverpeak.*.*",
      "Africa.Vandora.Kylandar.MysticRidge.*.*", "Africa.Quinthar.Valthoria.Stormshade.*.*",
      "Africa.Xylothar.Vorath.SunValley.*.*", "Africa.Zelandia.Theronis.CrimsonCove.*.*",
      "Africa.Vantheon.Selvos.Moonspire.*.*", "Africa.Therondar.Volaria.ShadowGrove.*.*",
      "Africa.Valdoria.Altira.LunarBay.*.*", "Africa.Selvoria.Xylandor.Glintwood.*.*",
      "Africa.Xyronia.Valtheris.Sunridge.*.*", "Africa.Quinthar.Voltara.ThunderGrove.*.*",
      "Africa.Valterra.Olthoria.CrimsonBluff.*.*", "Africa.Xalvoria.Zorath.MysticPeak.*.*",
      "Africa.Thalvaris.Zanthon.Sunstone.*.*", "Africa.Rovinthar.Vantoria.EchoRidge.*.*",
      "Africa.Selthara.Zorvath.SilverCrest.*.*", "Africa.Xylandra.Valdoria.MoonRidge.*.*",
      "Africa.Valtheris.Zolvaris.ShadowValley.*.*",
      "Africa.Vorlonia.Thalvaris.Thunderstone.*.*", "Africa.Xalvaris.Zeltria.Sunbluff.*.*",
      "Africa.Vandaria.Rovinthar.GlintPeak.*.*", "Africa.Thalvath.Xoltris.SilverVale.*.*",
      "Africa.Valdaria.Sylvoris.MoonCrest.*.*", "Africa.Seltheris.Voltrax.CrimsonHill.*.*",
      "Africa.Valtheris.Rovinthor.SunGrove.*.*", "Africa.Xarvath.Zorvinth.StormValley.*.*",
      "Africa.Kylandor.Valthros.Glintstone.*.*", "Africa.Sylvoria.Zelvath.MoonGlen.*.*",
      "Asia.Valdoria.Tharvos.SunGrove.*.*", "Asia.Xelthar.Vorlon.Moonshade.*.*",
      "Asia.Zantheria.Vorath.StormVale.*.*", "Asia.Valtheris.Selvath.ThunderCrest.*.*",
      "Asia.Tharvath.Xoltria.Sunbluff.*.*", "Asia.Zolvaris.Valthros.ShadowGrove.*.*",
      "Asia.Xarvath.Selvorn.Moonstone.*.*", "Asia.Voltaris.Zeltria.GlintRidge.*.*",
      "Asia.Seltharis.Valoria.Sunwood.*.*", "Asia.Valtoris.Thalvath.MysticGrove.*.*",
      "Asia.Zarvath.Xelvos.CrimsonPeak.*.*", "Asia.Volaris.Tharvon.Shadowvale.*.*",
      "Asia.Xelvoris.Valtheria.SilverGlen.*.*", "Asia.Valdoria.Zorvath.LunarHollow.*.*",
      "Asia.Xylandar.Valvoria.Sunstone.*.*", "Asia.Theronis.Voltrax.Glintwood.*.*",
      "Asia.Zeltria.Valtoria.StormGlen.*.*", "Asia.Vanthara.Tharvath.ThunderBay.*.*",
      "Asia.Selthra.Zoltrax.Moonridge.*.*", "Asia.Valtheria.Zarvath.Sunbluff.*.*",
      "Asia.Xoltria.Volaria.SilverBay.*.*", "Asia.Theronis.Valdaria.Shadowstone.*.*",
      "Asia.Valvoria.Zyloth.SunVale.*.*", "Asia.Xantheria.Thalvath.Moonstone.*.*",
      "Asia.Zarvath.Valthros.GlintGlen.*.*", "Asia.Vorathia.Xelthros.Suncrest.*.*",
      "Asia.Selvoria.Zolvaris.CrimsonHill.*.*", "Asia.Valdoris.Theronis.MoonGrove.*.*" >>

methods ==
    << "GET", "POST" >>

requests ==
    << "http://aaron.stratum8.net/FFC/login.html",
      "http://aaron.stratum8.net/FFC/login.php?login_name=abc&passwd=123456789234&drinking_pref=on&text_area=&loginButton=ClickToLogin&as_sfid=AAAAAAWIahZuYoIFbjBhYMP05mJLTwEfIY0a7AKGMg3jIBaKmwtK4t7M7lNxOgj7Gmd3SZc8KUj6CR6a7W5kIWDRHN8PtK1Zc-txHkHNx1WknuG9DzTuM7t1THhluevXu9I4kp8%3D&as_fid=feeec8758b41740eedeeb6b35b85dfd3d5def30c",
      "http://aaron.stratum8.net/FFC/wwwboard/passwd.txt",
      "http://aaron.stratum8.net/FFC/CreditCardMind.html",
      "http://vpx247.example.net/FFC/CreditCardMind.html",
      "http://vpx247.example.net/FFC/login_post.html?abc\\=def",
      "http://vpx247.example.net/FFC/wwwboard/passwd.txt" >>

messages ==
    << "Signature violation rule ID 807: web-cgi /wwwboard/passwd.txt access",
      "Disallow Illegal URL.",
      "Transformed (xout) potential credit card numbers seen in server response",
      "Maximum number of potential credit card numbers seen",
      "Field consistency check failed for field passwd" >>

profiles ==
    << "pr_ffc" >>

severityLabels ==
    << "INFO", "ALERT" >>

violationCategory ==
    << "", "web-cgi", "sql-injection", "phishing" >>

actions ==
    << "blocked", "not blocked", "transformed" >>

(***************************************************************************)
(* The generators.  A running call is a record s: the instance's fields f, *)
(* the random source rng, the clock, the local zone, the seed the latest   *)
(* Randomtime installed, and whether the call panicked.  d holds the ticks *)
(* the clock advances before each time.Now() of a statement.               *)
(***************************************************************************)
\* the Go index expression s[i]: a panic when i is out of range
Index(s, i) ==
    IF i \in 0..(Len(s) - 1) THEN [ok |-> TRUE, v |-> s[i + 1]] ELSE [ok |-> FALSE]

\* f.<name> = <e>, with the source left in state r; a failed index panics
Store(s, name, e, r) ==
    IF e.ok THEN [s EXCEPT !.f[name] = e.v, !.rng = r]
    ELSE [s EXCEPT !.panic = TRUE, !.rng = r]

\* f.<name> = table[rand.Intn(len(table))]
Pick(s, name, table) ==
    Store(s, name, Index(table, Intn(s.rng, Len(table))), Step(s.rng))

\* f.<name> = <value drawn with one draw>
Draw(s, name, v) == [s EXCEPT !.f[name] = v, !.rng = Step(s.rng)]

\* f.<name> = <value>, no draw
Set(s, name, v) == [s EXCEPT !.f[name] = v]

-----------------------------------------------------------------------------
\* firewall: the fields of Firewall and their Go types
FirewallFields ==
    [Timestamp |-> "string", Date |-> "time", DevId |-> "string", DevName |-> "string",
     Direction |-> "string", DstIp |-> "ip", DstPort |-> "int", Duration |-> "int",
     Interface1 |-> "string", Interface2 |-> "string", InterfaceRole1 |-> "string",
     InterfaceRole2 |-> "string", Level |-> "string", LogId |-> "int", PolicyId |-> "int",
     Protocol |-> "int", QueryName |-> "string", QueryType |-> "string",
     ReceivedBytes |-> "int", SentBytes |-> "int", SentPackets |-> "int",
     Server |-> "string", SessionId |-> "int", SrcIp |-> "ip", SrcPort |-> "int",
     Templates |-> "templates", Timezone |-> "string", TrafficAction |-> "string",
     User |-> "string", Vd |-> "string", XId |-> "int"]

\* the Go zero value of a type (the zero time.Time is never formatted)
ZeroOf(ty) ==
    CASE ty = "string" -> ""
      [] ty = "int" -> 0
      [] ty = "time" -> 0
      [] ty \in {"ip", "templates"} -> <<>>

\* firewall: &Firewall{}
FirewallZero == [n \in DOMAIN FirewallFields |-> ZeroOf(FirewallFields[n])]

\* firewall: the number of statements of randomize
FirewallStmts == 28

\* a SentBytes that is the packet count itself
SentBytesUnscaled(packets) == packets

\* firewall: f.SentPackets * 1500
SentBytesOf(packets) == packets * 1500

\* firewall: f.Timestamp = random.Randomtime(), the call having returned rt
Timestamped(s, rt) ==
    [s EXCEPT !.f.Timestamp = rt.formattedTime, !.rng = rt.rng,
              !.clock = rt.call.now, !.rt = <<rt.call>>]

\* firewall: statement k of randomize
FirewallStmt(k, s, d) ==
    CASE k = 1 ->
            Timestamped(s, Randomtime(s.clock + d[1], s.clock + d[1] + d[2], s.zone))
      [] k = 2 -> Pick(s, "DevName", devices)
      [] k = 3 -> Pick(s, "DevId", devid)
      [] k = 4 -> Draw(s, "LogId", Intn(s.rng, 10))
      [] k = 5 -> Set(s, "Timezone", "-0500")
      [] k = 6 -> [s EXCEPT !.f.Date = s.clock + d[1], !.clock = s.clock + d[1]]
      [] k = 7 -> Set(s, "Vd", "root")
      [] k = 8 -> Pick(s, "User", users)
      [] k = 9 -> Pick(s, "Server", servers)
      [] k = 10 -> [s EXCEPT !.f.SrcIp = IPv4(s.rng), !.rng = Step(s.rng)]
      [] k = 11 -> Draw(s, "SrcPort", Port(s.rng))
      [] k = 12 -> [s EXCEPT !.f.DstIp = IPv4(s.rng), !.rng = Step(s.rng)]
      [] k = 13 -> Draw(s, "DstPort", Port(s.rng))
      [] k = 14 -> Draw(s, "PolicyId", Intn(s.rng, 256))
      [] k = 15 -> Draw(s, "SessionId", Intn(s.rng, 65536))
      [] k = 16 -> Pick(s, "Interface1", interfaces)
      [] k = 17 -> Pick(s, "Interface2", interfaces)
      [] k = 18 -> Pick(s, "InterfaceRole1", roles)
      [] k = 19 -> Pick(s, "InterfaceRole2", roles)
      [] k = 20 -> Pick(s, "Protocol", protocols)
      [] k = 21 -> Pick(s, "QueryName", queries)
      [] k = 22 -> Pick(s, "QueryType", queryTypes)
      [] k = 23 -> Draw(s, "XId", Intn(s.rng, 256))
      [] k = 24 -> Pick(s, "Level", levels)
      [] k = 25 -> Pick(s, "TrafficAction", trafficActions)
      [] k = 26 -> Draw(s, "SentPackets", Intn(s.rng, 65536))
      [] k = 27 -> Set(s, "SentBytes", SentBytesOf(s.f.SentPackets))
      [] k = 28 -> Draw(s, "Duration", Intn(s.rng, 1024))

\* firewall: the clock advances statement k is given, out of the three of a pass
FirewallAdvances(k, ds) ==
    CASE k = 1 -> <<ds[1], ds[2]>>
      [] k = 6 -> <<ds[3]>>
      [] OTHER -> <<>>

\* firewall: randomize from statement k on; a panic ends it
RECURSIVE FirewallFrom(_, _, _)
FirewallFrom(k, s, ds) ==
    IF k > FirewallStmts \/ s.panic THEN s
    ELSE FirewallFrom(k + 1, FirewallStmt(k, s, FirewallAdvances(k, ds)), ds)

\* firewall: (f *Firewall) randomize()
FirewallRandomize(s, ds) == FirewallFrom(1, s, ds)

-----------------------------------------------------------------------------
\* cef: the exported fields of CEF and their Go types (templates is unexported)
CEFFields ==
    [Timestamp |-> "time", TimeLayout |-> "string", Facility |-> "string",
     Priority |-> "string", Addr |-> "ip", CEFVersion |-> "int", Vendor |-> "string",
     Product |-> "string", Version |-> "string", Module |-> "string",
     Violation |-> "string", Severity |-> "int", SrcAddr |-> "ip", Geo |-> "string",
     SrcPort |-> "int", Method |-> "string", Request |-> "string", Message |-> "string",
     EventID |-> "int", TxID |-> "int", Profile |-> "string", PPEID |-> "string",
     SessID |-> "string", SeverityLabel |-> "string", Year |-> "int",
     ViolationCategory |-> "string", Action |-> "string"]

\* cef: &CEF{}
CEFZero == [n \in DOMAIN CEFFields |-> ZeroOf(CEFFields[n])]

\* a randString that draws from one index too many
randStringPastEnd(r, s) == Index(s, Intn(r, Len(s) + 1))

\* cef: randString(s), drawn from state r
randString(r, s) == Index(s, Intn(r, Len(s)))

\* cef: c.<name> = randString(table)
PickString(s, name, table) == Store(s, name, randString(s.rng, table), Step(s.rng))

\* cef: the number of statements of randomize
CEFStmts == 27

\* cef: statement k of randomize
CEFStmt(k, s, d) ==
    CASE k = 1 -> [s EXCEPT !.f.Timestamp = s.clock + d[1], !.clock = s.clock + d[1]]
      [] k = 2 -> PickString(s, "TimeLayout", timeLayouts)
      [] k = 3 -> PickString(s, "Facility", facilities)
      [] k = 4 -> PickString(s, "Priority", priorities)
      [] k = 5 -> [s EXCEPT !.f.Addr = IPv4(s.rng), !.rng = Step(s.rng)]
      [] k = 6 -> Draw(s, "CEFVersion", Intn(s.rng, 2))
      [] k = 7 -> PickString(s, "Vendor", vendors)
      [] k = 8 -> PickString(s, "Product", products)
      [] k = 9 -> PickString(s, "Version", versions)
      [] k = 10 -> PickString(s, "Module", modules)
      [] k = 11 -> PickString(s, "Violation", violations)
      [] k = 12 -> Draw(s, "Severity", Intn(s.rng, 10) + 1)
      [] k = 13 -> [s EXCEPT !.f.SrcAddr = IPv4(s.rng), !.rng = Step(s.rng)]
      [] k = 14 -> PickString(s, "Geo", locations)
      [] k = 15 -> Draw(s, "SrcPort", Port(s.rng))
      [] k = 16 -> PickString(s, "Method", methods)
      [] k = 17 -> PickString(s, "Request", requests)
      [] k = 18 -> PickString(s, "Message", messages)
      [] k = 19 -> Draw(s, "EventID", Intn(s.rng, 1000))
      [] k = 20 -> Draw(s, "TxID", Intn(s.rng, 100000))
      [] k = 21 -> PickString(s, "Profile", profiles)
      [] k = 22 -> Draw(s, "PPEID", "PPE" \o Itoa(Intn(s.rng, 9) + 1))
      [] k = 23 -> [s EXCEPT !.f.SessID = EncodeToString(Octets(s.rng, 16)),
                             !.rng = StepN(s.rng, 3)]
      [] k = 24 -> PickString(s, "SeverityLabel", severityLabels)
      [] k = 25 -> Set(s, "Year", Wall(s.f.Timestamp, s.zone).year)
      [] k = 26 -> PickString(s, "ViolationCategory", violationCategory)
      [] k = 27 -> PickString(s, "Action", actions)

\* cef: the clock advance statement k is given, out of the one of a pass
CEFAdvances(k, ds) == IF k = 1 THEN <<ds[1]>> ELSE <<>>

\* cef: randomize from statement k on; a panic ends it
RECURSIVE CEFFrom(_, _, _)
CEFFrom(k, s, ds) ==
    IF k > CEFStmts \/ s.panic THEN s
    ELSE CEFFrom(k + 1, CEFStmt(k, s, CEFAdvances(k, ds)), ds)

\* cef: (c *CEF) randomize()
CEFRandomize(s, ds) == CEFFrom(1, s, ds)

-----------------------------------------------------------------------------
\* defaultConfig() and cfg.Unpack(&c): the generators take no options
Unpack(cfg) == [err |-> cfg # "empty"]

Kinds == {"firewall", "cef"}

\* template strings a test of the package puts in msgTemplates: one that does not
\* parse, one that names a field the record does not have
malformedTemplate == "devname={{.DevName"

absentFieldTemplate == "act={{.Action}}{{.TrafficAction}} host={{.Hostname}}"

TemplateSets ==
    { [firewall |-> fwTemplates, cef |-> cefTemplates],
      [firewall |-> Append(fwTemplates, malformedTemplate), cef |-> cefTemplates],
      [firewall |-> Append(fwTemplates, absentFieldTemplate), cef |-> cefTemplates],
      [firewall |-> fwTemplates, cef |-> Append(cefTemplates, malformedTemplate)],
      [firewall |-> fwTemplates, cef |-> Append(cefTemplates, absentFieldTemplate)] }

\* the loop of New over msgTemplates, from index i on:
\* template.New(strconv.Itoa(i))...Parse(v), appended to the list
RECURSIVE ParseFrom(_, _)
ParseFrom(srcs, i) ==
    IF i > Len(srcs) THEN <<>>
    ELSE <<Parse(Itoa(i - 1), srcs[i])>> \o ParseFrom(srcs, i + 1)

\* the loop's outcome: an error if a template failed to parse, else the list
CompileLoop(srcs, ts) == [err |-> \E i \in 1..Len(ts) : ts[i].err, list |-> ts]

\* the loop's outcome for every template list of the model, computed once
Compiled ==
    {<<srcs, CompileLoop(srcs, ParseFrom(srcs, 1))>> :
        srcs \in {ts[k] : ts \in TemplateSets, k \in Kinds}}

Compile(srcs) == (CHOOSE p \in Compiled : p[1] = srcs)[2]

\* a call that starts with the source in state rng, the clock at clock, in zone zone;
\* rt is the latest Randomtime call made for the instance (none: <<>>)
Call(f, rt, rng, clock, zone) ==
    [f |-> f, rt |-> rt, rng |-> rng, clock |-> clock, zone |-> zone, panic |-> FALSE]

\* what a call hands back: the generator (none: <<>>), the bytes (nil: <<>>), the
\* error, what was written to buf, and the state it leaves the process in
Return(gen, bytes, err, buf, rng, clock, panic) ==
    [gen |-> gen, bytes |-> bytes, err |-> err, buf |-> buf,
     rng |-> rng, clock |-> clock, panic |-> panic]

\* a generator object: its record, its compiled templates, its latest Randomtime call
Generator(kind, s, templates) ==
    [kind |-> kind, f |-> s.f, templates |-> templates, rt |-> s.rt]

\* firewall: the end of New, after randomize left s and the parse loop gave ts
FirewallBuilt(s, ts) ==
    IF s.panic THEN Return(<<>>, <<>>, FALSE, "", s.rng, s.clock, TRUE)
    ELSE IF ts.err THEN Return(<<>>, <<>>, TRUE, "", s.rng, s.clock, FALSE)
    ELSE Return(<<Generator("firewall", s, ts.list)>>, <<>>, FALSE, "",
                s.rng, s.clock, FALSE)

\* firewall: New(cfg)
FirewallNew(cfg, srcs, rng, clock, zone, ds) ==
    IF Unpack(cfg).err THEN Return(<<>>, <<>>, TRUE, "", rng, clock, FALSE)
    ELSE FirewallBuilt(
             FirewallRandomize(
                 Call([n \in DOMAIN FirewallZero \ {"Templates"} |-> FirewallZero[n]],
                      <<>>, rng, clock, zone), ds),
             Compile(srcs))

\* firewall: the end of Next, after buf.Bytes() was taken and randomize left s
FirewallDone(g, ex, s) ==
    Return(<<Generator("firewall", s, g.templates)>>, <<ex.out>>, FALSE, ex.out,
           s.rng, s.clock, s.panic)

\* a Next that hands back what Execute wrote before it failed
FirewallRenderedPartial(g, ex, r, clock, zone, ds) ==
    IF ex.err THEN Return(<<g>>, <<ex.out>>, TRUE, ex.out, r, clock, FALSE)
    ELSE FirewallDone(g, ex, FirewallRandomize(Call(g.f, g.rt, r, clock, zone), ds))

\* firewall: Next after Execute gave ex, with the source left in state r
FirewallRendered(g, ex, r, clock, zone, ds) ==
    IF ex.err THEN Return(<<g>>, <<>>, TRUE, ex.out, r, clock, FALSE)
    ELSE FirewallDone(g, ex, FirewallRandomize(Call(g.f, g.rt, r, clock, zone), ds))

\* firewall: the body of Next: the template is chosen and executed against the
\* record, and then the record is randomized
FirewallRender(g, rng, clock, zone, ds) ==
    FirewallRendered(
        g,
        Execute(g.templates[Intn(rng, Len(g.templates)) + 1],
                g.f @@ [Templates |-> g.templates], FirewallFields, zone),
        Step(rng), clock, zone, ds)

\* the generator after a pass started with the source in state r
Rerandomized(g, r, clock, zone, ds) ==
    Generator("firewall", FirewallRandomize(Call(g.f, g.rt, r, clock, zone), ds),
              g.templates)

\* a Next that randomizes the record before it renders it
FirewallNextRandomizeFirst(g, rng, clock, zone, ds) ==
    IF Len(g.templates) = 0 THEN Return(<<g>>, <<>>, FALSE, "", rng, clock, TRUE)
    ELSE FirewallRender(Rerandomized(g, rng, clock, zone, ds), rng, clock, zone, ds)

\* firewall: (f *Firewall) Next(); rand.Intn(0) panics
FirewallNext(g, rng, clock, zone, ds) ==
    IF Len(g.templates) = 0 THEN Return(<<g>>, <<>>, FALSE, "", rng, clock, TRUE)
    ELSE FirewallRender(g, rng, clock, zone, ds)

\* a New that hands back the generator together with the parse error
CEFBuiltPartial(s, ts) ==
    IF s.panic THEN Return(<<>>, <<>>, FALSE, "", s.rng, s.clock, TRUE)
    ELSE Return(<<Generator("cef", s, ts.list)>>, <<>>, ts.err, "", s.rng, s.clock, FALSE)

\* cef: the end of New, after randomize left s and the parse loop gave ts
CEFBuilt(s, ts) ==
    IF s.panic THEN Return(<<>>, <<>>, FALSE, "", s.rng, s.clock, TRUE)
    ELSE IF ts.err THEN Return(<<>>, <<>>, TRUE, "", s.rng, s.clock, FALSE)
    ELSE Return(<<Generator("cef", s, ts.list)>>, <<>>, FALSE, "", s.rng, s.clock, FALSE)

\* cef: New(cfg)
CEFNew(cfg, srcs, rng, clock, zone, ds) ==
    IF Unpack(cfg).err THEN Return(<<>>, <<>>, TRUE, "", rng, clock, FALSE)
    ELSE CEFBuilt(CEFRandomize(Call(CEFZero, <<>>, rng, clock, zone), ds), Compile(srcs))

\* cef: the end of Next, after buf.Bytes() was taken and randomize left s
CEFDone(g, ex, s) ==
    Return(<<Generator("cef", s, g.templates)>>, <<ex.out>>, FALSE, ex.out,
           s.rng, s.clock, s.panic)

\* cef: Next after Execute gave ex, with the source left in state r
CEFRendered(g, ex, r, clock, zone, ds) ==
    IF ex.err THEN Return(<<g>>, <<>>, TRUE, ex.out, r, clock, FALSE)
    ELSE CEFDone(g, ex, CEFRandomize(Call(g.f, g.rt, r, clock, zone), ds))

\* cef: (c *CEF) Next(); rand.Intn(0) panics
CEFNext(g, rng, clock, zone, ds) ==
    IF Len(g.templates) = 0 THEN Return(<<g>>, <<>>, FALSE, "", rng, clock, TRUE)
    ELSE CEFRendered(
             g,
             Execute(g.templates[Intn(rng, Len(g.templates)) + 1], g.f, CEFFields, zone),
             Step(rng), clock, zone, ds)

(***************************************************************************)
(* The process: the clock, the random source, the two packages' template   *)
(* lists, and the generator instances a driver holds.                      *)
(***************************************************************************)
VARIABLES
    clock,         \* the latest clock reading, in ticks
    boot,          \* the first clock reading
    zone,          \* the local zone, seconds east of UTC
    rng,           \* the state of the process-wide random source
    panicked,      \* whether the process panicked
    msgTemplates,  \* the package variables msgTemplates, by package
    gens,          \* the driver's generators: <<>> (none) or <<generator>>
    last,          \* the latest call and what it returned
    serialized,    \* whether concurrent callers hold a mutex around Next
    holder,        \* the caller that holds the mutex, or 0
    callers,       \* the concurrent callers of Next on instance 1: where each is
    wrote,         \* for each field of instance 1, the pass that wrote its value
    sched          \* the caller that ran last, and the switches made so far

vars == <<clock, boot, zone, rng, panicked, msgTemplates, gens, last,
          serialized, holder, callers, wrote, sched>>

\* the second the clock first reads (1979-12-31 23:59:59 UTC)
BootSecond == 315532799


\* the configurations handed to New: no option, or an option no generator knows
Configs == {"empty", "unrecognized"}

\* the local zones: UTC and five hours west
Zones == {0, -18000}

\* the ticks the clock advances before the readings of one call
Advances(n) == [1..n -> {0, 1}]

NoCall == [op |-> "none", inst |-> 0, kind |-> "", cfg |-> "", err |-> FALSE,
           bytes |-> <<>>, buf |-> "", gens |-> <<>>, rng |-> 0, clock |-> 0]

Init ==
    /\ boot = BootSecond * TicksPerSec
    /\ clock = boot
    /\ zone \in Zones
    /\ rng \in 0..(RandMod - 1)
    /\ panicked = FALSE
    /\ msgTemplates \in TemplateSets
    /\ gens = [i \in {1} |-> <<>>]
    /\ last = NoCall
    /\ serialized = TRUE /\ holder = 0 /\ callers = <<>> /\ wrote = <<>>
    /\ sched = [ran |-> 0, switches |-> 0]

\* a driver that holds two instances, with the packages' templates as declared,
\* and makes its calls within one tick of the clock
InitPair ==
    /\ boot = BootSecond * TicksPerSec
    /\ clock = boot + MaxClock - 1
    /\ zone = 0
    /\ rng \in 0..(RandMod - 1)
    /\ panicked = FALSE
    /\ msgTemplates = [firewall |-> fwTemplates, cef |-> cefTemplates]
    /\ gens = [i \in {1, 2} |-> <<>>]
    /\ last = NoCall
    /\ serialized = TRUE /\ holder = 0 /\ callers = <<>> /\ wrote = <<>>
    /\ sched = [ran |-> 0, switches |-> 0]

\* instances that are one object: what one is handed, all hold
PutShared(gs, i, g) == [k \in DOMAIN gs |-> IF g = <<>> THEN gs[k] ELSE g]

\* the driver's instance i after the call handed back generator g
Put(gs, i, g) == [gs EXCEPT ![i] = g]

\* the call op on instance i returns r: the process state after it; last keeps
\* what the call was given, what it returned and the state it started in
Returned(op, i, kind, cfg, r) ==
    /\ r.clock <= boot + MaxClock
    /\ clock' = r.clock
    /\ rng' = r.rng
    /\ panicked' = r.panic
    /\ gens' = Put(gens, i, r.gen)
    /\ last' = [op |-> op, inst |-> i, kind |-> kind, cfg |-> cfg, err |-> r.err,
                bytes |-> r.bytes, buf |-> r.buf, gens |-> gens, rng |-> rng,
                clock |-> clock]
    /\ UNCHANGED <<boot, zone, msgTemplates, serialized, holder, callers, wrote, sched>>

\* the driver constructs instance i of a firewall generator
NewFirewall(i, cfg, ds) ==
    /\ ~panicked
    /\ gens[i] = <<>>
    /\ Returned("New", i, "firewall", cfg,
                FirewallNew(cfg, msgTemplates.firewall, rng, clock, zone, ds))

\* the driver constructs instance i of a cef generator
NewCEF(i, cfg, ds) ==
    /\ ~panicked
    /\ gens[i] = <<>>
    /\ Returned("New", i, "cef", cfg, CEFNew(cfg, msgTemplates.cef, rng, clock, zone, ds))

\* the driver calls Next on its firewall instance i
NextFirewall(i, ds) ==
    /\ ~panicked
    /\ gens[i] # <<>>
    /\ gens[i][1].kind = "firewall"
    /\ Returned("Next", i, "firewall", "", FirewallNext(gens[i][1], rng, clock, zone, ds))

\* the driver calls Next on its cef instance i
NextCEF(i, ds) ==
    /\ ~panicked
    /\ gens[i] # <<>>
    /\ gens[i][1].kind = "cef"
    /\ Returned("Next", i, "cef", "", CEFNext(gens[i][1], rng, clock, zone, ds))

Next ==
    \/ \E i \in DOMAIN gens, cfg \in Configs, ds \in Advances(3) : NewFirewall(i, cfg, ds)
    \/ \E i \in DOMAIN gens, cfg \in Configs, ds \in Advances(1) : NewCEF(i, cfg, ds)
    \/ \E i \in DOMAIN gens, ds \in Advances(3) : NextFirewall(i, ds)
    \/ \E i \in DOMAIN gens, ds \in Advances(1) : NextCEF(i, ds)

Spec == Init /\ [][Next]_vars

SpecPair == InitPair /\ [][Next]_vars

\* the schema and the template data of a generator
FieldsOf(g) == IF g.kind = "firewall" THEN FirewallFields ELSE CEFFields
DataOf(g) == IF g.kind = "firewall" THEN g.f @@ [Templates |-> g.templates] ELSE g.f

(***************************************************************************)
(* Two callers of Next on one instance.  A call is the steps of Next in    *)
(* program order, each step atomic: the template is drawn and executed,    *)
(* then the statements of randomize run one by one.  The callers may wrap  *)
(* the call in a mutex (serialized).  Without it the steps interleave; the *)
(* reads of Execute and the writes of a statement are then a data race,    *)
(* and the interleavings of whole steps are among the outcomes it has.     *)
(***************************************************************************)
Callers == {1, 2}

\* firewall, cef: the field each statement of randomize assigns
FirewallTargets ==
    <<"Timestamp", "DevName", "DevId", "LogId", "Timezone", "Date", "Vd", "User", "Server",
      "SrcIp", "SrcPort", "DstIp", "DstPort", "PolicyId", "SessionId", "Interface1",
      "Interface2", "InterfaceRole1", "InterfaceRole2", "Protocol", "QueryName",
      "QueryType", "XId", "Level", "TrafficAction", "SentPackets", "SentBytes", "Duration">>

CEFTargets ==
    <<"Timestamp", "TimeLayout", "Facility", "Priority", "Addr", "CEFVersion", "Vendor",
      "Product", "Version", "Module", "Violation", "Severity", "SrcAddr", "Geo", "SrcPort",
      "Method", "Request", "Message", "EventID", "TxID", "Profile", "PPEID", "SessID",
      "SeverityLabel", "Year", "ViolationCategory", "Action">>

Targets(kind) == IF kind = "firewall" THEN FirewallTargets ELSE CEFTargets

\* statement k of randomize of a generator of the kind, and the time.Now() calls in it
Stmt(kind, k, s, d) == IF kind = "firewall" THEN FirewallStmt(k, s, d) ELSE CEFStmt(k, s, d)

ClockReads(kind, k) ==
    IF kind = "firewall" THEN (IF k = 1 THEN 2 ELSE IF k = 6 THEN 1 ELSE 0)
    ELSE (IF k = 1 THEN 1 ELSE 0)

\* a Next that runs two statements of randomize before it executes the template
OpRandomizeAround(kind, p) ==
    IF p = 3 THEN [op |-> "execute", k |-> 0]
    ELSE [op |-> "randomize", k |-> IF p < 3 THEN p ELSE p - 1]

\* the p-th step of Next: Execute first, then the statements of randomize
Op(kind, p) ==
    IF p = 1 THEN [op |-> "execute", k |-> 0] ELSE [op |-> "randomize", k |-> p - 1]

\* the steps of a Next
Steps(kind) == Len(Targets(kind)) + 1

\* a caller that has not called yet
Idle == [pc |-> 0, tmpl |-> 0, line |-> <<>>, err |-> FALSE, shown |-> <<>>, passes |-> {}]

\* the instance the driver built at the clock reading at, with the source in
\* state r, before the callers start, and the process after it
Built(kind, r, at) ==
    IF kind = "firewall" THEN FirewallNew("empty", fwTemplates, r, at, 0, <<0, 0, 0>>)
    ELSE CEFNew("empty", cefTemplates, r, at, 0, <<0>>)

InitConc ==
    /\ boot = BootSecond * TicksPerSec
    /\ zone = 0
    /\ panicked = FALSE
    /\ msgTemplates = [firewall |-> fwTemplates, cef |-> cefTemplates]
    /\ last = NoCall
    /\ serialized \in BOOLEAN
    /\ holder = 0
    /\ callers = [c \in Callers |-> Idle]
    /\ sched = [ran |-> 0, switches |-> 0]
    /\ \E kind \in Kinds :
          /\ gens = [i \in {1} |-> Built(kind, 0, boot).gen]
          /\ rng = Built(kind, 0, boot).rng
          /\ clock = Built(kind, 0, boot).clock
          /\ wrote = [n \in {Targets(kind)[k] : k \in 1..Len(Targets(kind))} |-> 0]

\* whether caller c is inside Next
Inside(c) == c \in DOMAIN callers /\ callers[c].pc \in 1..(Steps(gens[1][1].kind) + 1)

\* the scheduler runs caller c: a switch when the caller that ran last is inside Next
Run(c) ==
    IF sched.ran # c /\ Inside(sched.ran)
    THEN /\ sched.switches < MaxSwitches
         /\ sched' = [ran |-> c, switches |-> sched.switches + 1]
    ELSE sched' = [sched EXCEPT !.ran = c]

\* caller c calls Next, taking the mutex if the callers use one
Enter(c) ==
    /\ Run(c)
    /\ callers[c].pc = 0
    /\ serialized => holder = 0
    /\ holder' = IF serialized THEN c ELSE holder
    /\ callers' = [callers EXCEPT ![c].pc = 1]
    /\ UNCHANGED <<clock, boot, zone, rng, panicked, msgTemplates, gens, last,
                   serialized, wrote>>

\* caller c after Execute of the template idx gave ex: what its line shows
Shown(c, p, g, idx, ex) ==
    [callers EXCEPT ![c] = [pc |-> IF ex.err THEN Steps(g.kind) + 1 ELSE p + 1,
                            tmpl |-> idx,
                            line |-> IF ex.err THEN <<>> ELSE <<ex.out>>,
                            err |-> ex.err,
                            shown |-> g.f,
                            passes |-> {wrote[n] : n \in DOMAIN wrote}]]

\* caller c draws the template and executes it against the record as it stands
Render(c) ==
    /\ Run(c)
    /\ callers[c].pc \in 1..Steps(gens[1][1].kind)
    /\ Op(gens[1][1].kind, callers[c].pc).op = "execute"
    /\ rng' = Step(rng)
    /\ callers' = Shown(c, callers[c].pc, gens[1][1],
                        Intn(rng, Len(gens[1][1].templates)) + 1,
                        Execute(gens[1][1].templates[Intn(rng, Len(gens[1][1].templates)) + 1],
                                DataOf(gens[1][1]), FieldsOf(gens[1][1]), zone))
    /\ UNCHANGED <<clock, boot, zone, panicked, msgTemplates, gens, last,
                   serialized, holder, wrote>>

\* the process after caller c ran statement k of randomize, which left s
Assigned(c, k, g, s) ==
    /\ s.clock <= boot + MaxClock
    /\ clock' = s.clock
    /\ rng' = s.rng
    /\ panicked' = s.panic
    /\ gens' = [gens EXCEPT ![1] = <<Generator(g.kind, s, g.templates)>>]
    /\ wrote' = [wrote EXCEPT ![Targets(g.kind)[k]] = c]
    /\ callers' = [callers EXCEPT ![c].pc = callers[c].pc + 1]
    /\ UNCHANGED <<boot, zone, msgTemplates, last, serialized, holder>>

\* caller c runs the next statement of randomize on the record as it stands
Randomize(c) ==
    /\ Run(c)
    /\ callers[c].pc \in 1..Steps(gens[1][1].kind)
    /\ Op(gens[1][1].kind, callers[c].pc).op = "randomize"
    /\ \E d \in Advances(ClockReads(gens[1][1].kind,
                                    Op(gens[1][1].kind, callers[c].pc).k)) :
          Assigned(c, Op(gens[1][1].kind, callers[c].pc).k, gens[1][1],
                   Stmt(gens[1][1].kind, Op(gens[1][1].kind, callers[c].pc).k,
                        Call(gens[1][1].f, gens[1][1].rt, rng, clock, zone), d))

\* caller c returns from Next, and gives the mutex back if the callers use one
Leave(c) ==
    /\ Run(c)
    /\ callers[c].pc = Steps(gens[1][1].kind) + 1
    /\ holder' = IF serialized THEN 0 ELSE holder
    /\ callers' = [callers EXCEPT ![c].pc = Steps(gens[1][1].kind) + 2]
    /\ UNCHANGED <<clock, boot, zone, rng, panicked, msgTemplates, gens, last,
                   serialized, wrote>>

NextConc ==
    \/ \E c \in Callers : Enter(c)
    \/ \E c \in Callers : Render(c)
    \/ \E c \in Callers : Randomize(c)
    \/ \E c \in Callers : Leave(c)

SpecConc == InitConc /\ [][NextConc]_vars

(***************************************************************************)
(* Properties.  last holds the latest call: what it was given, what it     *)
(* returned, and the instances, the source and the clock as they were when *)
(* it began; so a property of a call is a property of the state it leaves. *)
(***************************************************************************)
\* the instance the latest call was made on, as the call left it and as it found it
Now == gens[last.inst][1]
Then == last.gens[last.inst][1]

NextReturned == last.op = "Next" /\ ~panicked
NextSucceeded == NextReturned /\ ~last.err
NewReturned == last.op = "New" /\ ~panicked

\* the text the k-th template of g renders from g's record
Line(g, k) == Execute(g.templates[k], DataOf(g), FieldsOf(g), zone).out

\* whether v is an entry of the table
InTable(v, table) == \E k \in 1..Len(table) : table[k] = v

\* the templates of both packages are the declared ones
Declared == msgTemplates = [firewall |-> fwTemplates, cef |-> cefTemplates]

\* C1: every successful Next returns the line rendered from the record as the call
\* found it, that is, as the previous pass (of New or of the Next before) left
\* it, with the template its one draw chose; the values the call itself draws
\* show only in the record it leaves.
C1_RendersRecordOfPreviousPass ==
    NextSucceeded =>
        /\ last.bytes = <<Line(Then, Intn(last.rng, Len(Then.templates)) + 1)>>
        /\ Now.templates = Then.templates

\* a successful Next whose pass changed the record, so that the line it returned
\* is not the line of the record it left
C1_Witness ==
    /\ NextSucceeded
    /\ Now.f # Then.f
    /\ last.bytes # <<Line(Now, Intn(last.rng, Len(Now.templates)) + 1)>>

\* C2: with the declared templates every Next succeeds, and every successful Next
\* returns a non-empty text with no newline character in it.
C2_NonEmptyNewlineFree ==
    NextReturned =>
        /\ Declared => ~last.err
        /\ ~last.err => /\ Len(last.bytes) = 1
                        /\ Len(last.bytes[1]) > 0
                        /\ ~HasNewline(last.bytes[1])

\* a successful Next of each format's longest rendering: the cef line with both
\* optional fragments, or the firewall traffic line
C2_Witness ==
    /\ NextSucceeded
    /\ Declared
    /\ \/ Then.kind = "cef" /\ Then.f.Geo # "" /\ Then.f.ViolationCategory # ""
       \/ Then.kind = "firewall" /\ Intn(last.rng, Len(Then.templates)) = 3

\* the categorical fields of the record f are entries of their tables
FirewallCategorical(f) ==
    /\ InTable(f.DevName, devices) /\ InTable(f.DevId, devid)
    /\ InTable(f.User, users) /\ InTable(f.Server, servers)
    /\ InTable(f.Level, levels)
    /\ InTable(f.Interface1, interfaces) /\ InTable(f.Interface2, interfaces)
    /\ InTable(f.InterfaceRole1, roles) /\ InTable(f.InterfaceRole2, roles)
    /\ f.Protocol \in {6, 17}
    /\ InTable(f.QueryName, queries) /\ InTable(f.QueryType, queryTypes)
    /\ InTable(f.TrafficAction, trafficActions)

CEFCategorical(f) ==
    /\ InTable(f.TimeLayout, timeLayouts) /\ InTable(f.Facility, facilities)
    /\ InTable(f.Priority, priorities) /\ InTable(f.Vendor, vendors)
    /\ InTable(f.Product, products) /\ InTable(f.Version, versions)
    /\ InTable(f.Module, modules) /\ InTable(f.Violation, violations)
    /\ InTable(f.Geo, locations) /\ InTable(f.Method, methods)
    /\ InTable(f.Request, requests) /\ InTable(f.Message, messages)
    /\ InTable(f.Profile, profiles) /\ InTable(f.SeverityLabel, severityLabels)
    /\ InTable(f.ViolationCategory, violationCategory) /\ InTable(f.Action, actions)

\* C3: no call panics on an index out of a table's range, and the record of every
\* instance, after New and after every Next, has an entry of the declared table
\* in each categorical field.
C3_CategoricalInTable ==
    /\ ~panicked
    /\ \A i \in DOMAIN gens :
          gens[i] # <<>> =>
              IF gens[i][1].kind = "firewall" THEN FirewallCategorical(gens[i][1].f)
              ELSE CEFCategorical(gens[i][1].f)

\* a Next left a record with the last entry of a table in it
C3_Witness ==
    /\ NextSucceeded
    /\ \/ Now.kind = "cef" /\ Now.f.Action = actions[Len(actions)]
       \/ Now.kind = "firewall" /\ Now.f.Level = levels[Len(levels)]

\* the integer fields of the record f are in their ranges
FirewallNumeric(f) ==
    /\ f.SrcPort \in 0..65535 /\ f.DstPort \in 0..65535
    /\ f.LogId \in 0..9 /\ f.PolicyId \in 0..255 /\ f.SessionId \in 0..65535
    /\ f.XId \in 0..255 /\ f.SentPackets \in 0..65535 /\ f.Duration \in 0..1023

CEFNumeric(f) ==
    /\ f.SrcPort \in 0..65535
    /\ f.Severity \in 1..10
    /\ f.CEFVersion \in 0..1 /\ f.EventID \in 0..999 /\ f.TxID \in 0..99999

\* C4: after New and after every Next, the port fields of every instance are in
\* 0..65535, the severity of a cef record is in 1..10, and the other drawn
\* integers are in the ranges of their draws.
C4_PortsAndSeverityInRange ==
    \A i \in DOMAIN gens :
        gens[i] # <<>> =>
            IF gens[i][1].kind = "firewall" THEN FirewallNumeric(gens[i][1].f)
            ELSE CEFNumeric(gens[i][1].f)

\* a Next left a cef record with a severity or a port at the end of its range
C4_Witness ==
    /\ NextSucceeded
    /\ Now.kind = "cef"
    /\ Now.f.Severity \in {1, 10} \/ Now.f.SrcPort \in {0, 65535}

\* C5: a Next whose template execution failed returns nil bytes with the error,
\* whatever Execute had written by then, and leaves the instance as the call found
\* it: no pass ran, the one draw made is the choice of the template, and the
\* clock was not read.
C5_RenderErrorLeavesRecord ==
    (NextReturned /\ last.err) =>
        /\ last.bytes = <<>>
        /\ gens = last.gens
        /\ rng = Step(last.rng)
        /\ clock = last.clock

\* a Next failed after Execute had written the start of the line
C5_Witness == NextReturned /\ last.err /\ last.buf # "" /\ Then.kind = "firewall"

\* the record of g is one a randomization pass of the latest call wrote
Populated(g) ==
    IF g.kind = "firewall"
    THEN /\ FirewallCategorical(g.f) /\ FirewallNumeric(g.f)
         /\ Len(g.f.Timestamp) = 8 /\ g.f.Vd = "root" /\ g.f.Timezone = "-0500"
         /\ g.f.Date \in last.clock..clock
    ELSE /\ CEFCategorical(g.f) /\ CEFNumeric(g.f)
         /\ g.f.Timestamp \in last.clock..clock
         /\ Len(g.f.PPEID) = 4 /\ Len(g.f.SessID) = 32

\* C6: New hands back a generator exactly when it hands back no error; the error
\* is there exactly when the configuration does not unpack or a template string
\* of the package does not parse; a generator handed back holds one compiled
\* template per template string of the package (4 for firewall and 1 for cef as
\* declared) and a populated record, and every draw of a template index falls
\* inside its template list.
C6_NewGeneratorOrError ==
    NewReturned =>
        /\ last.err <=> gens[last.inst] = <<>>
        /\ last.err <=> \/ last.cfg # "empty"
                        \/ InTable(malformedTemplate, msgTemplates[last.kind])
        /\ ~last.err =>
              /\ Now.kind = last.kind
              /\ Len(Now.templates) = Len(msgTemplates[last.kind])
              /\ Declared => Len(Now.templates) = (IF last.kind = "firewall" THEN 4 ELSE 1)
              /\ \A k \in 1..Len(Now.templates) : ~Now.templates[k].err
              /\ Populated(Now)
              /\ \A r \in 0..(RandMod - 1) :
                    Intn(r, Len(Now.templates)) + 1 \in 1..Len(Now.templates)

\* New of cef was given a configuration that unpacks and a template that does not
\* parse: it handed back the error and no generator
C6_Witness ==
    /\ NewReturned /\ last.kind = "cef" /\ last.cfg = "empty"
    /\ last.err /\ gens[last.inst] = <<>>

\* the other instances, when the latest call was a Next
Others == {j \in DOMAIN gens : j # last.inst /\ gens[j] # <<>>}

\* what a Next on g hands back with the source in state r, for each way the clock
\* can advance
NextOf(g, r) ==
    IF g.kind = "firewall"
    THEN {FirewallNext(g, r, clock, zone, ds) : ds \in Advances(3)}
    ELSE {CEFNext(g, r, clock, zone, ds) : ds \in Advances(1)}

\* C7: a Next on one instance leaves the record, the compiled templates and
\* everything else of every other instance as they were; what it changes outside
\* its own instance is the process-wide random source, from which the other
\* instances draw too.
C7_OtherInstanceUnchanged ==
    NextReturned =>
        \A j \in DOMAIN gens : j # last.inst => gens[j] = last.gens[j]

\* a Next on one instance changed its record while the other instance, of the
\* other format, stood by
C7_Witness ==
    /\ NextSucceeded
    /\ Now.f # Then.f
    /\ \E j \in Others : gens[j][1].kind # Now.kind

\* C7 as stated: besides leaving the other instances as they were, the Next
\* leaves what each of them hands back next as it would have been without it
C7_NoSharedState ==
    NextReturned =>
        \A j \in Others :
            /\ gens[j] = last.gens[j]
            /\ NextOf(gens[j][1], rng) = NextOf(gens[j][1], last.rng)

\* the hour:minute:second of the instant t in the local zone
ClockOfDay(sec) ==
    Pad2(sec \div 3600) \o ":" \o Pad2((sec % 3600) \div 60) \o ":" \o Pad2(sec % 60)

\* C9: the Randomtime call of the latest pass of a firewall instance added an
\* offset of at least 0 and less than 20 minutes to the instant 20 minutes before
\* its clock reading now, so the instant t it formatted has now - 20 min <= t <
\* now, and the Timestamp is the hour:minute:second of t in the local zone.
C9_RandomtimeWithinWindow ==
    \A i \in DOMAIN gens :
        (gens[i] # <<>> /\ gens[i][1].kind = "firewall") =>
            /\ Len(gens[i][1].rt) = 1
            /\ gens[i][1].rt[1].offset \in 0..(20 * 60 * TicksPerSec - 1)
            /\ gens[i][1].rt[1].randomTimestamp =
                   gens[i][1].rt[1].now - 20 * 60 * TicksPerSec + gens[i][1].rt[1].offset
            /\ gens[i][1].rt[1].randomTimestamp < gens[i][1].rt[1].now
            /\ gens[i][1].rt[1].now \in boot..clock
            /\ gens[i][1].f.Timestamp =
                   ClockOfDay(((gens[i][1].rt[1].randomTimestamp \div TicksPerSec) + zone)
                                  % (24 * 60 * 60))

\* a pass drew the largest offset, one tick short of 20 minutes
C9_Witness ==
    /\ NextSucceeded
    /\ Now.kind = "firewall"
    /\ Now.rt[1].offset = 20 * 60 * TicksPerSec - 1
    /\ Now.rt[1].randomTimestamp = Now.rt[1].now - 1

\* the fields of a firewall record that a pass draws after Randomtime seeded the source
DrawnAfterSeed == DOMAIN FirewallFields \ {"Timestamp", "Date", "Templates"}

Rendered == {c \in DOMAIN callers : callers[c].line # <<>>}

\* C8: when the callers hold a mutex around Next, the line a caller renders shows
\* the values of one randomization pass: every field of the record it was
\* rendered from was written by the same pass (and so, for firewall, SentBytes is
\* SentPackets x 1500), and the line is the text of that record.  Without the
\* mutex a caller can render while the other is inside its pass (C8_Witness).
C8_SerializedLineOfOnePass ==
    serialized =>
        \A c \in Rendered :
            /\ Cardinality(callers[c].passes) = 1
            /\ gens[1][1].kind = "firewall" =>
                  callers[c].shown.SentBytes = callers[c].shown.SentPackets * 1500

\* without the mutex, a caller rendered the firewall traffic line while the other
\* was inside its pass: the line shows values of two passes, and its sentbyte is
\* not its sentpkt x 1500
C8_Witness ==
    /\ ~serialized
    /\ gens[1][1].kind = "firewall"
    /\ \E c \in Rendered :
          /\ Cardinality(callers[c].passes) = 2
          /\ callers[c].tmpl = 4
          /\ callers[c].shown.SentBytes # callers[c].shown.SentPackets * 1500
          /\ callers[c].line =
                 <<Execute(gens[1][1].templates[4],
                           callers[c].shown @@ [Templates |-> gens[1][1].templates],
                           FirewallFields, zone).out>>

\* a value of the type that no statement of randomize assigns
StaleOf(ty) ==
    CASE ty = "string" -> "<stale>"
      [] ty \in {"int", "time"} -> -1
      [] ty = "ip" -> <<-1>>

\* (f *Firewall) randomize() or (c *CEF) randomize(), by the kind of the generator
RandomizeOf(kind, s, ds) ==
    IF kind = "firewall" THEN FirewallRandomize(s, ds) ELSE CEFRandomize(s, ds)

\* the record the pass of the latest call started from: the zero record in New,
\* the record Next rendered
PassRecord ==
    IF last.op = "Next" THEN Then.f
    ELSE IF last.kind = "firewall"
         THEN [n \in DOMAIN FirewallZero \ {"Templates"} |-> FirewallZero[n]]
         ELSE CEFZero

\* the state of the source when that pass started: Next drew the template first
PassSource == IF last.op = "Next" THEN Step(last.rng) ELSE last.rng

\* the pass of the latest call, had it started from the record f with the clock
\* advancing by ds
PassFrom(f, ds) == RandomizeOf(last.kind, Call(f, <<>>, PassSource, last.clock, zone), ds)

\* the clock advances of the pass of the latest call
PassAdvances ==
    {ds \in Advances(3) : PassFrom(PassRecord, ds).f = Now.f
                          /\ PassFrom(PassRecord, ds).clock = clock}

\* the latest pass wrote field n: the value the field holds after the pass is
\* the pass's own and not the one the field held before it
Written(n) ==
    \A ds \in PassAdvances :
        PassFrom([PassRecord EXCEPT ![n] = StaleOf(FieldsOf(Now)[n])], ds).f[n] = Now.f[n]

\* the latest call ran a pass to its end and returned the generator
PassDone == (NewReturned \/ NextSucceeded) /\ ~last.err /\ gens[last.inst] # <<>>

\* C11: after New and after every successful Next, every data field of the record
\* (every field but the compiled templates) holds a value the latest pass wrote.
\* The code does not keep this: randomize of Firewall has no statement for
\* Direction and none for ReceivedBytes.
C11_EveryFieldWritten ==
    PassDone => (PassAdvances # {} /\ \A n \in DOMAIN Now.f : Written(n))

\* the fields the latest pass left as they were
Unwritten == {n \in DOMAIN Now.f : ~Written(n)}

\* the positions in s where the text sub stands
At(s, sub) == {j \in 1..(Len(s) - Len(sub) + 1) : SubSeq(s, j, j + Len(sub) - 1) = sub}

\* whether s ends with the text sub
EndsWith(s, sub) == Len(sub) <= Len(s) /\ SubSeq(s, Len(s) - Len(sub) + 1, Len(s)) = sub

\* cef: the text of the line from src= to method=, with the geolocation fragment geo
SrcToMethod(f, geo) ==
    "|src=" \o IPString(f.SrcAddr) \o " " \o geo \o "spt=" \o Itoa(f.SrcPort) \o " method="

\* cef: the text of the line from cs5= to its end, with the cs6 fragment cat
Cs5ToEnd(f, cat) == " cs5=" \o Itoa(f.Year) \o " " \o cat \o "act=" \o f.Action

\* cef: the optional fragment of a field: its key, its value and one space, or
\* nothing when the value is the empty string
Fragment(key, v) == IF v = "" THEN "" ELSE key \o v \o " "

\* cef: the line the latest Next returned
CEFLine == last.bytes[1]

\* C12: in every line CEF.Next returns, "geolocation=<Geo> " is present exactly
\* when the Geo of the record rendered is not empty, and "cs6=<ViolationCategory> "
\* exactly when ViolationCategory is not empty; when the field is empty the key is
\* omitted with it, and src= .. spt= and cs5= .. act= stay one space apart.
C12_OptionalFragments ==
    (NextSucceeded /\ last.kind = "cef") =>
        /\ Cardinality(At(CEFLine, "geolocation=")) = (IF Then.f.Geo = "" THEN 0 ELSE 1)
        /\ Cardinality(At(CEFLine, "cs6=")) =
               (IF Then.f.ViolationCategory = "" THEN 0 ELSE 1)
        /\ Cardinality(At(CEFLine, SrcToMethod(Then.f, Fragment("geolocation=", Then.f.Geo))))
               = 1
        /\ EndsWith(CEFLine, Cs5ToEnd(Then.f, Fragment("cs6=", Then.f.ViolationCategory)))

\* a Next rendered a record whose Geo is empty and whose ViolationCategory is not:
\* the line goes from src= to spt= with one space, and carries cs6=
C12_Witness ==
    /\ NextSucceeded /\ last.kind = "cef"
    /\ Then.f.Geo = "" /\ Then.f.ViolationCategory # ""
    /\ At(CEFLine, SrcToMethod(Then.f, "")) # {}
    /\ At(CEFLine, "cs6=" \o Then.f.ViolationCategory \o " act=") # {}

\* firewall: whether the line is a traffic/forward line
IsTraffic(line) == At(line, "type=\"traffic\" subtype=\"forward\"") # {}

\* firewall: the text of a traffic line from sentbyte= to appcat=, with the values
\* sent, rcvd and pkts
ByteCounts(sent, rcvd, pkts) ==
    " sentbyte=" \o Itoa(sent) \o " rcvdbyte=" \o Itoa(rcvd)
        \o " sentpkt=" \o Itoa(pkts) \o " appcat="

\* C13: after New and after every successful Next the record of a firewall
\* instance has SentPackets in 0..65535 and SentBytes = SentPackets x 1500; every
\* traffic/forward line Next returns carries sentbyte = 1500 x sentpkt, and its
\* rcvdbyte, which the template fills from SentBytes, equals its sentbyte.
C13_BytesArePacketsTimes1500 ==
    /\ \A i \in DOMAIN gens :
          (gens[i] # <<>> /\ gens[i][1].kind = "firewall") =>
              /\ gens[i][1].f.SentPackets \in 0..65535
              /\ gens[i][1].f.SentBytes = gens[i][1].f.SentPackets * 1500
    /\ (NextSucceeded /\ last.kind = "firewall" /\ IsTraffic(last.bytes[1])) =>
          /\ Cardinality(At(last.bytes[1],
                            ByteCounts(Then.f.SentPackets * 1500,
                                       Then.f.SentPackets * 1500,
                                       Then.f.SentPackets))) = 1
          /\ Cardinality(At(last.bytes[1], " sentbyte=")) = 1
          /\ Cardinality(At(last.bytes[1], " rcvdbyte=")) = 1
          /\ Cardinality(At(last.bytes[1], " sentpkt=")) = 1

\* a Next returned a traffic line of a record that sent packets: its rcvdbyte is
\* its sentbyte, 1500 x sentpkt, and not the ReceivedBytes of the record
C13_Witness ==
    /\ NextSucceeded /\ last.kind = "firewall" /\ IsTraffic(last.bytes[1])
    /\ Then.f.SentPackets > 0
    /\ Then.f.ReceivedBytes # Then.f.SentBytes
    /\ At(last.bytes[1], ByteCounts(Then.f.SentBytes, Then.f.SentBytes,
                                    Then.f.SentPackets)) # {}
    /\ At(last.bytes[1], " rcvdbyte=" \o Itoa(Then.f.ReceivedBytes) \o " ") = {}

=============================================================================
